---- MODULE Spec2Model ----
(***************************************************************************)
(* Model of backend/utils.py of the recipe chatbot: the module-level       *)
(* configuration (load_dotenv, MODEL_NAME) and get_agent_response, the     *)
(* wrapper that puts the system prompt at the head of a conversation       *)
(* history, calls litellm.completion and returns the history extended by   *)
(* the assistant's reply.                                                  *)
(*                                                                         *)
(* Text whose characters matter (message contents, the provider's reply)   *)
(* is a sequence of one-character strings, so that str.strip() is modelled *)
(* by what it does.  Python lists are objects of a heap, so that aliasing  *)
(* (current_messages = messages) and in-place mutation are expressible.    *)
(***************************************************************************)
EXTENDS Integers, Sequences, FiniteSets, TLC

VARIABLES
    environ,                  \* os.environ, restricted to the key MODEL_NAME
    MODEL_NAME,               \* the module constant of line 74
    pc,                       \* position of the program
    heap,                     \* list objects: object id -> sequence of messages
    messages,                 \* the parameter of get_agent_response (an object id)
    current_messages,         \* local of get_agent_response (an object id)
    completion,               \* the provider's response
    assistant_reply_content,  \* local of get_agent_response
    returned,                 \* the object get_agent_response returned
    exc,                      \* the exception that left get_agent_response
    calls,                    \* history: the provider calls of this invocation
    h0,                       \* history: the caller's list when the call was made
    chain,                    \* history: the conversation began without system message
    prev,                     \* history: what the previous invocation returned
    turn                      \* history: number of the invocation in the conversation

vars == <<environ, MODEL_NAME, pc, heap, messages, current_messages, completion,
          assistant_reply_content, returned, exc, calls, h0, chain, prev, turn>>

----------------------------------------------------------------------------
(* Bounds *)

MaxLen == 2      \* longest history a caller starts a conversation with
MaxText == 3     \* longest text the provider returns
MaxTurns == 2    \* most invocations in one conversation

----------------------------------------------------------------------------
(* Text *)

Whitespace == {" ", "\n", "\t"}

Chars == {" ", "x"}

Texts == UNION {[1..n -> Chars] : n \in 0..MaxText}

RECURSIVE LStrip(_)
LStrip(s) ==
    IF s = <<>> THEN <<>>
    ELSE IF Head(s) \in Whitespace THEN LStrip(Tail(s)) ELSE s

RECURSIVE RStrip(_)
RStrip(s) ==
    IF s = <<>> THEN <<>>
    ELSE IF s[Len(s)] \in Whitespace THEN RStrip(SubSeq(s, 1, Len(s) - 1)) ELSE s

\* str.strip()
Strip(s) == RStrip(LStrip(s))

----------------------------------------------------------------------------
(* Constants of the module *)

\* The prompt text, abridged: it begins and ends with a newline.
SYSTEM_PROMPT == <<"\n", "#", "\n">>

DefaultModel == "gpt-4o-mini"

Unbound == "<unbound>"

----------------------------------------------------------------------------
(* Environment *)

NoVars == [k \in {} |-> ""]

EnvWith(v) == [k \in {"MODEL_NAME"} |-> v]

\* What the process environment, and the .env file, may hold for MODEL_NAME.
Settings == {NoVars, EnvWith(""), EnvWith("gpt-4o")}

\* load_dotenv(override=False): a variable already set keeps its value.
LoadDotenvNoOverride(env, file) ==
    [k \in (DOMAIN env) \cup (DOMAIN file) |->
        IF k \in DOMAIN env THEN env[k] ELSE file[k]]

\* os.environ.get(key, default)
EnvironGet(env, key, default) ==
    IF key \in DOMAIN env THEN env[key] ELSE default

\* Mutant: os.environ.get("MODEL_NAME") or "gpt-4o-mini"
ResolveModelName_orDefault(env) ==
    IF "MODEL_NAME" \in DOMAIN env /\ env["MODEL_NAME"] # ""
    THEN env["MODEL_NAME"] ELSE DefaultModel

\* MODEL_NAME = os.environ.get("MODEL_NAME", "gpt-4o-mini")
ResolveModelName(env) == EnvironGet(env, "MODEL_NAME", DefaultModel)

----------------------------------------------------------------------------
(* Messages and histories *)

Msg(r, c) == [role |-> r, content |-> c]

SystemMessage == Msg("system", SYSTEM_PROMPT)

UserMsgs == {Msg("user", <<" ", "h", " ">>)}

\* What a caller puts in a history: a system prompt of its own, user and
\* assistant turns.
InputMsgs == {Msg("system", <<"c">>), Msg("assistant", <<"o", "k">>)} \cup UserMsgs

Histories == UNION {[1..n -> InputMsgs] : n \in 0..MaxLen}

----------------------------------------------------------------------------
(* List objects *)

NoRef == 0
MessagesObj == 1     \* the caller's list
PrependedObj == 2    \* the list built at line 98
UpdatedObj == 3      \* the list built at line 113

----------------------------------------------------------------------------
(* Prompt normalization, lines 96-100 *)

\* Mutant: the role of the first message is not looked at.
NeedsSystemPrompt_always(h) == TRUE

\* not messages or messages[0]["role"] != "system"
NeedsSystemPrompt(h) == h = <<>> \/ h[1].role # "system"

\* Mutant: the system prompt is put after the history.
Prepend_after(h) == h \o <<SystemMessage>>

\* [{"role": "system", "content": SYSTEM_PROMPT}] + messages
Prepend(h) == <<SystemMessage>> \o h

\* The value of current_messages for a history h.
Normalize(h) == IF NeedsSystemPrompt(h) THEN Prepend(h) ELSE h

----------------------------------------------------------------------------
(* The provider, lines 102-105 *)

Choice(t) == [message |-> [role |-> "assistant", content |-> t]]

ChoiceNoContent == [message |-> [role |-> "assistant"]]

FirstChoices == {Choice(t) : t \in Texts} \cup {ChoiceNoContent}

\* A second choice, when the provider returns more than the one asked for.
ExtraChoice == Choice(<<"y">>)

Responses ==
    {[choices |-> <<>>]}
        \cup {[choices |-> <<c>>] : c \in FirstChoices}
        \cup {[choices |-> <<c, ExtraChoice>>] : c \in FirstChoices}

Unassigned == [unassigned |-> TRUE]

ProviderCall(model, msgs) == [model |-> model, messages |-> msgs]

----------------------------------------------------------------------------
(* Extraction of the reply, lines 107-110 *)

\* completion["choices"][0]
ReplyChoice(c) == c.choices[1]

\* Mutant: a missing choice or content reads as the empty text.
ExtractReply_lenient(c) ==
    IF c.choices = <<>> \/ "content" \notin DOMAIN ReplyChoice(c).message
    THEN [raises |-> "none", value |-> <<>>]
    ELSE [raises |-> "none", value |-> Strip(ReplyChoice(c).message.content)]

\* Mutant: the text is taken as the provider gave it.
ExtractReply_unstripped(c) ==
    IF c.choices = <<>> THEN [raises |-> "IndexError", value |-> <<>>]
    ELSE IF "content" \notin DOMAIN ReplyChoice(c).message
         THEN [raises |-> "KeyError", value |-> <<>>]
         ELSE [raises |-> "none", value |-> ReplyChoice(c).message.content]

\* completion["choices"][0]["message"]["content"].strip()
ExtractReply(c) ==
    IF c.choices = <<>> THEN [raises |-> "IndexError", value |-> <<>>]
    ELSE IF "content" \notin DOMAIN ReplyChoice(c).message
         THEN [raises |-> "KeyError", value |-> <<>>]
         ELSE [raises |-> "none", value |-> Strip(ReplyChoice(c).message.content)]

----------------------------------------------------------------------------
(* The returned list, lines 113-114 *)

\* Mutant: current_messages.append(...); return current_messages
AppendReply_inplace(hp, cur, reply) ==
    [heap |-> [hp EXCEPT ![cur] = Append(hp[cur], Msg("assistant", reply))],
     ref |-> cur]

\* updated_messages = current_messages + [{"role": "assistant", ...}]
AppendReply(hp, cur, reply) ==
    [heap |-> hp @@ (UpdatedObj :> Append(hp[cur], Msg("assistant", reply))),
     ref |-> UpdatedObj]

----------------------------------------------------------------------------
(* State machine *)

Init ==
    /\ environ \in Settings
    /\ MODEL_NAME = Unbound
    /\ pc = "boot"
    /\ heap = [o \in {} |-> <<>>]
    /\ messages = NoRef
    /\ current_messages = NoRef
    /\ completion = Unassigned
    /\ assistant_reply_content = <<>>
    /\ returned = NoRef
    /\ exc = "none"
    /\ calls = <<>>
    /\ h0 = <<>>
    /\ chain = FALSE
    /\ prev = <<>>
    /\ turn = 0

\* Line 16: load_dotenv(override=False)
LoadDotenv ==
    /\ pc = "boot"
    /\ \E file \in Settings : environ' = LoadDotenvNoOverride(environ, file)
    /\ pc' = "env_loaded"
    /\ UNCHANGED <<MODEL_NAME, heap, messages, current_messages, completion,
                   assistant_reply_content, returned, exc, calls, h0, chain, prev, turn>>

\* Line 74: MODEL_NAME is bound
ReadModelName ==
    /\ pc = "env_loaded"
    /\ MODEL_NAME' = ResolveModelName(environ)
    /\ pc' = "ready"
    /\ UNCHANGED <<environ, heap, messages, current_messages, completion,
                   assistant_reply_content, returned, exc, calls, h0, chain, prev, turn>>

\* get_agent_response is entered with the list h; its locals are unbound.
Enter(h, inChain, last, n) ==
    /\ heap' = (MessagesObj :> h)
    /\ messages' = MessagesObj
    /\ current_messages' = NoRef
    /\ completion' = Unassigned
    /\ assistant_reply_content' = <<>>
    /\ returned' = NoRef
    /\ exc' = "none"
    /\ calls' = <<>>
    /\ h0' = h
    /\ chain' = inChain
    /\ prev' = last
    /\ turn' = n
    /\ pc' = "entered"
    /\ UNCHANGED <<environ, MODEL_NAME>>

\* A caller starts a conversation.
Invoke ==
    /\ pc \in {"ready", "done", "raised"}
    /\ \E h \in Histories :
          Enter(h, \A i \in 1..Len(h) : h[i].role # "system", <<>>, 1)

\* A caller passes the returned history back with one more user message.
FollowUp ==
    /\ pc = "done"
    /\ turn < MaxTurns
    /\ \E u \in UserMsgs : Enter(Append(heap[returned], u), chain, heap[returned], turn + 1)

\* Lines 96-100
NormalizeStep ==
    /\ pc = "entered"
    /\ IF NeedsSystemPrompt(heap[messages])
       THEN /\ heap' = heap @@ (PrependedObj :> Normalize(heap[messages]))
            /\ current_messages' = PrependedObj
       ELSE /\ heap' = heap
            /\ current_messages' = messages
    /\ pc' = "normalized"
    /\ UNCHANGED <<environ, MODEL_NAME, messages, completion,
                   assistant_reply_content, returned, exc, calls, h0, chain, prev, turn>>

\* Mutant: a failed call is made a second time before the failure is raised.
Completion_retry ==
    /\ pc = "normalized"
    /\ \/ /\ calls' = Append(calls, ProviderCall(MODEL_NAME, heap[current_messages]))
          /\ \E r \in Responses : completion' = r
          /\ pc' = "completed"
          /\ exc' = exc
       \/ /\ calls' = calls \o <<ProviderCall(MODEL_NAME, heap[current_messages]),
                                 ProviderCall(MODEL_NAME, heap[current_messages])>>
          /\ completion' = completion
          /\ pc' = "raised"
          /\ exc' = "ProviderException"
    /\ UNCHANGED <<environ, MODEL_NAME, heap, messages, current_messages,
                   assistant_reply_content, returned, h0, chain, prev, turn>>

\* Lines 102-105: the provider is called; it answers or raises.
Completion ==
    /\ pc = "normalized"
    /\ calls' = Append(calls, ProviderCall(MODEL_NAME, heap[current_messages]))
    /\ \/ /\ \E r \in Responses : completion' = r
          /\ pc' = "completed"
          /\ exc' = exc
       \/ /\ completion' = completion
          /\ pc' = "raised"
          /\ exc' = "ProviderException"
    /\ UNCHANGED <<environ, MODEL_NAME, heap, messages, current_messages,
                   assistant_reply_content, returned, h0, chain, prev, turn>>

\* Lines 107-110
Extract ==
    /\ pc = "completed"
    /\ LET out == ExtractReply(completion) IN
          IF out.raises = "none"
          THEN /\ assistant_reply_content' = out.value
               /\ pc' = "extracted"
               /\ exc' = exc
          ELSE /\ assistant_reply_content' = assistant_reply_content
               /\ pc' = "raised"
               /\ exc' = out.raises
    /\ UNCHANGED <<environ, MODEL_NAME, heap, messages, current_messages,
                   completion, returned, calls, h0, chain, prev, turn>>

\* Lines 113-114
Return ==
    /\ pc = "extracted"
    /\ LET out == AppendReply(heap, current_messages, assistant_reply_content) IN
          /\ heap' = out.heap
          /\ returned' = out.ref
    /\ pc' = "done"
    /\ UNCHANGED <<environ, MODEL_NAME, messages, current_messages, completion,
                   assistant_reply_content, exc, calls, h0, chain, prev, turn>>

Next ==
    \/ LoadDotenv
    \/ ReadModelName
    \/ Invoke
    \/ FollowUp
    \/ NormalizeStep
    \/ Completion
    \/ Extract
    \/ Return

Spec == Init /\ [][Next]_vars

----------------------------------------------------------------------------
(* Properties *)

InCall == pc \in {"entered", "normalized", "completed", "extracted", "done", "raised"}

Called == Len(calls) > 0

\* The history the provider was called with.
EffectiveHistory == calls[1].messages

CountSystem(s) == Cardinality({i \in 1..Len(s) : s[i].role = "system"})

\* c is t without its leading and trailing whitespace.
IsTrimOf(c, t) ==
    \E i, j \in 0..Len(t) :
        /\ i + j <= Len(t)
        /\ c = SubSeq(t, i + 1, Len(t) - j)
        /\ \A k \in 1..i : t[k] \in Whitespace
        /\ \A k \in (Len(t) - j + 1)..Len(t) : t[k] \in Whitespace
        /\ c = <<>> \/ (c[1] \notin Whitespace /\ c[Len(c)] \notin Whitespace)

\* The provider raised, returned no choice, or a first choice without content.
ProviderFailed ==
    \/ completion = Unassigned
    \/ completion.choices = <<>>
    \/ "content" \notin DOMAIN completion.choices[1].message

\* C1: when the caller's history is empty or does not begin with a system
\* message, every provider call carries the system prompt message followed
\* by the caller's messages, all of them, in their order, unaltered.
C1_PrependedHistoryIsCalled ==
    (Called /\ (h0 = <<>> \/ h0[1].role # "system")) =>
        \A i \in 1..Len(calls) :
            /\ Len(calls[i].messages) = Len(h0) + 1
            /\ calls[i].messages[1] = [role |-> "system", content |-> SYSTEM_PROMPT]
            /\ \A k \in 1..Len(h0) : calls[i].messages[k + 1] = h0[k]

C1_Witness ==
    /\ Called
    /\ Len(h0) = 2
    /\ h0[1].role = "assistant"
    /\ h0[2].role = "user"

\* C2: when the caller's history begins with a system message, every provider
\* call carries that history as it is: nothing is inserted and the caller's
\* system content stays at the head.
C2_LeadingSystemIsKept ==
    (Called /\ h0 # <<>> /\ h0[1].role = "system") =>
        \A i \in 1..Len(calls) : calls[i].messages = h0

C2_Witness ==
    /\ Called
    /\ Len(h0) = 2
    /\ h0[1].role = "system"
    /\ h0[1].content # SYSTEM_PROMPT

\* C3: the returned history is the effective history followed by one
\* assistant message whose content is the first choice's text without its
\* leading and trailing whitespace.
C3_ReturnedIsEffectivePlusReply ==
    pc = "done" =>
        LET res == heap[returned]
            n == Len(EffectiveHistory)
        IN /\ Len(res) = n + 1
           /\ \A k \in 1..n : res[k] = EffectiveHistory[k]
           /\ res[n + 1].role = "assistant"
           /\ DOMAIN res[n + 1] = {"role", "content"}
           /\ IsTrimOf(res[n + 1].content, completion.choices[1].message.content)

C3_Witness ==
    /\ pc = "done"
    /\ Len(completion.choices) = 2
    /\ completion.choices[1].message.content = <<" ", "x", " ">>
    /\ heap[returned][Len(heap[returned])].content = <<"x">>

\* C4: in both branches the caller's list holds what it held when the call
\* was made, and the returned list is another object with another value.
C4_CallerHistoryUntouched ==
    InCall =>
        /\ heap[messages] = h0
        /\ pc = "done" => (returned # messages /\ heap[returned] # heap[messages])

C4_Witness ==
    /\ pc = "done"
    /\ current_messages = messages
    /\ Len(h0) = 2

\* C5: when the provider raises, or returns no choice or a first choice
\* without content, the invocation ends with an exception: nothing is
\* returned, no list holds an appended reply, the caller's list is as it was.
C5_FailureSurfaces ==
    (pc \in {"extracted", "done", "raised"} /\ ProviderFailed) =>
        /\ pc = "raised"
        /\ exc # "none"
        /\ returned = NoRef
        /\ heap[messages] = h0
        /\ \A o \in DOMAIN heap : heap[o] \in {h0, EffectiveHistory}

C5_Witness ==
    /\ pc = "raised"
    /\ exc = "KeyError"
    /\ Len(completion.choices) = 1
    /\ h0 # <<>>

\* C6 as stated: whatever the input, the effective history holds exactly one
\* system message, at its head.
C6_ExactlyOneSystem ==
    Called =>
        /\ EffectiveHistory[1].role = "system"
        /\ CountSystem(EffectiveHistory) = 1

\* C6 amended: the effective history begins with a system message, and it
\* holds exactly one system message if and only if the input has no system
\* message after its first position.
C6_SystemAtHead ==
    Called =>
        /\ EffectiveHistory # <<>>
        /\ EffectiveHistory[1].role = "system"
        /\ CountSystem(EffectiveHistory) = 1
               <=> \A i \in 2..Len(h0) : h0[i].role # "system"

C6_Witness ==
    /\ Called
    /\ Len(h0) = 2
    /\ h0[1].role = "user"
    /\ h0[2].role = "system"
    /\ CountSystem(EffectiveHistory) = 2

\* C7 as stated: the model of every provider call is the value of MODEL_NAME
\* in the environment when it is set and not empty, "gpt-4o-mini" otherwise.
C7_EmptyFallsBack ==
    \A i \in 1..Len(calls) :
        calls[i].model =
            IF "MODEL_NAME" \in DOMAIN environ /\ environ["MODEL_NAME"] # ""
            THEN environ["MODEL_NAME"] ELSE "gpt-4o-mini"

\* C7 amended: the model of every provider call is the value of MODEL_NAME in
\* the environment when it is set, the empty string included, and
\* "gpt-4o-mini" only when it is not set.
C7_ModelFromEnvironment ==
    \A i \in 1..Len(calls) :
        /\ "MODEL_NAME" \in DOMAIN environ => calls[i].model = environ["MODEL_NAME"]
        /\ "MODEL_NAME" \notin DOMAIN environ => calls[i].model = "gpt-4o-mini"

C7_Witness ==
    /\ Called
    /\ "MODEL_NAME" \in DOMAIN environ
    /\ environ["MODEL_NAME"] = ""
    /\ calls[1].model = ""

\* C8: normalization is idempotent: current_messages is the normalization of
\* the caller's history, and normalizing it again gives it back.
C8_NormalizeIdempotent ==
    current_messages # NoRef =>
        /\ heap[current_messages] = Normalize(h0)
        /\ Normalize(heap[current_messages]) = heap[current_messages]

C8_Witness ==
    /\ pc = "normalized"
    /\ current_messages = PrependedObj
    /\ Len(h0) = 2

\* C9: an invocation calls the provider once, not before line 102 and exactly
\* once from then on, whether the call answered or raised, and whatever the
\* invocations before it did.
C9_OneProviderCall ==
    /\ pc \in {"entered", "normalized"} => Len(calls) = 0
    /\ pc \in {"completed", "extracted", "done", "raised"} => Len(calls) = 1

C9_Witness ==
    /\ pc = "raised"
    /\ exc = "ProviderException"
    /\ Len(calls) = 1
    /\ turn = 2

\* C10: in a conversation that began without system message and went on by
\* passing the returned history back with one user message, every history
\* called and returned has the system prompt message at its head and no other
\* system message, each returned history extends the one before it, and it
\* is two messages longer.
C10_ConversationKeepsOneSystem ==
    chain =>
        /\ \A i \in 1..Len(calls) :
              /\ calls[i].messages[1] = SystemMessage
              /\ CountSystem(calls[i].messages) = 1
        /\ pc = "done" =>
              LET res == heap[returned] IN
                 /\ res[1] = SystemMessage
                 /\ CountSystem(res) = 1
                 /\ turn > 1 =>
                       /\ Len(res) = Len(prev) + 2
                       /\ \A k \in 1..Len(prev) : res[k] = prev[k]

C10_Witness ==
    /\ chain
    /\ turn = 2
    /\ pc = "done"
    /\ Len(heap[returned]) = 6

====
